---- MODULE Spec2Model ----
(***************************************************************************)
(* Vector<T>: a growable array over raw, uninitialized storage.            *)
(*                                                                         *)
(* The repository holds near-duplicate variants of the class:              *)
(*   "vector.h"  src/vector.h lines 1-226: Insert/Emplace/Erase, with      *)
(*               PushBack and EmplaceBack routed through Emplace;          *)
(*   "part_000"  src/unnamed/part_000: PushBack/EmplaceBack with the       *)
(*               helpers ReallocateAndPush and ReallocateAndEmplace.       *)
(* Reserve, PopBack, Swap, the constructors, the assignments and the       *)
(* destructor are the same text in every variant.                          *)
(*                                                                         *)
(* A buffer is a sequence of slots; a slot is Uninit (no object lives      *)
(* there) or holds the value of a live T.  Element operations (placement   *)
(* construction, assignment, destruction) are executed one by one by Exec, *)
(* which also decides which of them throws, and which of them touches a    *)
(* slot whose object is not alive (undefined behaviour).                   *)
(***************************************************************************)
EXTENDS Integers, Sequences, FiniteSets, TLC

\* ---------------------------------------------------------------- bounds
MaxCap == 4
MaxSize == 3
MaxVal == 1
MaxThrow == 4
MaxPairCap == 2

\* ------------------------------------------------------- element encoding
\* A slot of raw storage in which no object is alive.
Uninit == -2
\* The value a moved-from T is left with.
MovedFrom == -1
\* The value of a value-initialized T.
DefaultValue == 0

\* The values an element is given by its caller (T() among them).
Values == 0..MaxVal
IsLive(x) == x # Uninit

\* Element types: what the type traits of the element say.
\*   NothrowMove   nothrow move constructible, copyable
\*   ThrowingMove  move constructor may throw, copyable
\*   MoveOnly      not copyable, move constructor may throw
Kinds == {"NothrowMove", "ThrowingMove", "MoveOnly"}
Variants == {"vector.h", "part_000"}

VARIABLES
    kind,       \* the element type T the class is instantiated with
    variant,    \* which variant of the class is compiled
    vec,        \* the Vector objects: status, data_ (slots), size_
    lastOp,     \* name of the operation just called, "none" between calls
    obj,        \* the object it was called on
    from,       \* the Vector it was given (other), or 0
    argVal,     \* value of its element argument at the time of the call
    argRef,     \* index of the own element the argument refers to, or -1
    argPos,     \* its position / count argument, or -1
    outcome,    \* "ok", "throw" (an exception left the call) or "ub"
    ret,        \* index of the returned position / reference, or -1
    leaked      \* some constructed element can no longer be destroyed

vars == <<kind, variant, vec, lastOp, obj, from, argVal, argRef, argPos, outcome, ret, leaked>>

Objs == {1, 2}

\* ---------------------------------------------------------- RawMemory<T>
\* RawMemory<T>(n): n slots of uninitialized storage.
RawMemory(n) == [i \in 1..n |-> Uninit]

\* ~RawMemory: frees the block without destroying anything; an object still
\* alive in it is lost.
LiveIn(buf) == \E i \in 1..Len(buf) : IsLive(buf[i])

Capacity(v) == Len(v.data)
Size(v) == v.size

\* ------------------------------------------------------ element operations
MoveCanThrow == kind # "NothrowMove"
Copyable == kind # "MoveOnly"

\* An element operation on the memory m (the buffers in play, concatenated):
\*   ctor  placement-construct a T in slot d
\*   asg   assign to the T in slot d
\*   dtor  destroy the T in slot d
\* from slot s of m, or (s = 0) from a value x outside the vector;
\* mode "copy", "move" or "value" (value-initialization / constructor args).
Ctor(d, s, x, mode) == [k |-> "ctor", d |-> d, s |-> s, x |-> x, mode |-> mode]
Asg(d, s, x, mode) == [k |-> "asg", d |-> d, s |-> s, x |-> x, mode |-> mode]
Dtor(d) == [k |-> "dtor", d |-> d, s |-> 0, x |-> 0, mode |-> "none"]

\* Destructors do not throw; a move throws only if T's move may throw.
Throwable(o) == o.k # "dtor" /\ (o.mode = "move" => MoveCanThrow)

ThrowCount(ops) == Cardinality({i \in 1..Len(ops) : Throwable(ops[i])})

\* The operation reads or destroys an object that is not alive.
Bad(m, o) ==
    \/ o.s # 0 /\ ~IsLive(m[o.s])
    \/ o.k \in {"asg", "dtor"} /\ ~IsLive(m[o.d])

\* Constructing over a live object ends its storage without its destructor.
Overwrites(m, o) == o.k = "ctor" /\ IsLive(m[o.d])

Effect(m, o) ==
    LET val == IF o.k = "dtor" THEN Uninit ELSE IF o.s = 0 THEN o.x ELSE m[o.s]
        m1 == [m EXCEPT ![o.d] = val]
    IN IF o.mode = "move" /\ o.s # 0 THEN [m1 EXCEPT ![o.s] = MovedFrom] ELSE m1

\* A move that throws may or may not have emptied its source already.
ThrowEffect(m, o, partial) ==
    IF partial /\ o.mode = "move" /\ o.s # 0 THEN [m EXCEPT ![o.s] = MovedFrom] ELSE m

\* What is left of the countdown t to the throwing operation after `used`
\* throwable operations have completed (0: nothing throws).
Rem(t, used) == IF t > used THEN t - used ELSE 0

\* Runs ops[i..] in order.  t = 1 makes the next throwable operation throw.
RECURSIVE Exec(_, _, _, _, _)
Exec(m, ops, i, t, partial) ==
    IF i > Len(ops) THEN [st |-> "ok", m |-> m, done |-> Len(ops), leak |-> FALSE]
    ELSE LET o == ops[i] IN
         IF Bad(m, o) THEN [st |-> "ub", m |-> m, done |-> i - 1, leak |-> FALSE]
         ELSE IF Throwable(o) /\ t = 1
              THEN [st |-> "throw", m |-> ThrowEffect(m, o, partial),
                    done |-> i - 1, leak |-> FALSE]
         ELSE LET r == Exec(Effect(m, o), ops, i + 1,
                            IF Throwable(o) THEN Rem(t, 1) ELSE t, partial)
              IN [r EXCEPT !.leak = @ \/ Overwrites(m, o)]

\* std::destroy_n(p, n): p is the number of slots before the first one.
DestroyN(m, p, n) == Exec(m, [i \in 1..n |-> Dtor(p + i)], 1, 0, FALSE)

\* std::uninitialized_copy_n / std::uninitialized_move_n (src, n, dst): on a
\* throw the elements already constructed at dst are destroyed again.
UninitializedN(m, src, n, dst, mode, t, partial) ==
    LET ops == [i \in 1..n |-> Ctor(dst + i, src + i, 0, mode)]
        r == Exec(m, ops, 1, t, partial)
    IN IF r.st = "throw"
       THEN [r EXCEPT !.m = [j \in 1..Len(m) |->
                               IF dst < j /\ j <= dst + r.done THEN Uninit ELSE r.m[j]]]
       ELSE r

\* std::uninitialized_value_construct_n(dst, n), same rollback.
UninitializedValueConstructN(m, dst, n, t) ==
    LET ops == [i \in 1..n |-> Ctor(dst + i, 0, DefaultValue, "value")]
        r == Exec(m, ops, 1, t, FALSE)
    IN IF r.st = "throw"
       THEN [r EXCEPT !.m = [j \in 1..Len(m) |->
                               IF dst < j /\ j <= dst + r.done THEN Uninit ELSE r.m[j]]]
       ELSE r

\* Mutant: the transfer always moves, whatever the type traits say.
TransferModeAlwaysMove == "move"

\* The if constexpr of ShiftDataToNewMemory / Reserve / ReallocateAnd*.
TransferMode == IF ~MoveCanThrow \/ ~Copyable THEN "move" ELSE "copy"

ShiftDataToNewMemory(m, old_buf, count, new_buf, t, partial) ==
    UninitializedN(m, old_buf, count, new_buf, TransferMode, t, partial)

\* Number of throwable operations a complete transfer of n elements runs.
TransferCount(n) == IF TransferMode = "copy" \/ MoveCanThrow THEN n ELSE 0

\* -------------------------------------------------------------- results
\* The result of a member function: how it ended, data_ and size_ after it,
\* the index it returns, and whether it lost a live element.
Result(st, data, size, r, leak) ==
    [st |-> st, data |-> data, size |-> size, ret |-> r, leak |-> leak]

Head_(m, n) == SubSeq(m, 1, n)
Tail_(m, n) == SubSeq(m, n + 1, Len(m))

\* Mutant: Reserve grows to at least twice the capacity.
ReserveAtLeastDouble(v, new_capacity, t, partial) ==
    IF new_capacity <= Capacity(v) THEN Result("ok", v.data, v.size, -1, FALSE)
    ELSE LET cap == Capacity(v)
             grown == IF new_capacity < 2 * cap THEN 2 * cap ELSE new_capacity
             m0 == v.data \o RawMemory(grown)
             r == ShiftDataToNewMemory(m0, 0, v.size, cap, t, partial)
         IN IF r.st # "ok"
            THEN Result(r.st, Head_(r.m, cap), v.size, -1,
                        r.leak \/ LiveIn(Tail_(r.m, cap)))
            ELSE LET d == DestroyN(r.m, 0, v.size)
                 IN Result(d.st, Tail_(d.m, cap), v.size, -1,
                           r.leak \/ LiveIn(Head_(d.m, cap)))

\* ---------------------------------------------------------------- Reserve
Reserve(v, new_capacity, t, partial) ==
    IF new_capacity <= Capacity(v) THEN Result("ok", v.data, v.size, -1, FALSE)
    ELSE LET cap == Capacity(v)
             m0 == v.data \o RawMemory(new_capacity)
             r == ShiftDataToNewMemory(m0, 0, v.size, cap, t, partial)
         IN IF r.st # "ok"
            THEN \* new_data goes out of scope; data_ keeps the old buffer
                 Result(r.st, Head_(r.m, cap), v.size, -1,
                        r.leak \/ LiveIn(Tail_(r.m, cap)))
            ELSE LET d == DestroyN(r.m, 0, v.size)
                 IN \* data_.Swap(new_data); the old buffer is freed
                    Result(d.st, Tail_(d.m, cap), v.size, -1,
                           r.leak \/ LiveIn(Head_(d.m, cap)))

\* Mutant: PopBack gives the freed slot back, shrinking the storage.
PopBackShrinks(v) ==
    LET d == DestroyN(v.data, v.size - 1, 1)
    IN Result(d.st, Head_(d.m, v.size - 1), v.size - 1, -1,
              LiveIn(Tail_(d.m, v.size - 1)))

\* ---------------------------------------------------------------- PopBack
PopBack(v) ==
    LET d == DestroyN(v.data, v.size - 1, 1)
    IN Result(d.st, d.m, v.size - 1, -1, FALSE)

\* ------------------------------------------------------------ arguments
\* The element argument of PushBack / Insert / Emplace / EmplaceBack:
\*   lvalue  const T& to an object outside the vector (copy construction)
\*   rvalue  T&& to an object outside the vector (move construction)
\*   args    constructor arguments forwarded to T's constructor
\*   self    const T& to the vector's own element ref, as in v.PushBack(v[0])
Arg(form, val, ref) == [form |-> form, val |-> val, ref |-> ref]

\* T(std::forward<Args>(args)...) placed in slot d; the vector's own buffer
\* is the first part of the memory, so element ref is slot ref + 1.
ArgCtor(d, a) ==
    IF a.form = "self" THEN Ctor(d, a.ref + 1, 0, "copy")
    ELSE Ctor(d, 0, a.val,
              IF a.form = "rvalue" THEN "move"
              ELSE IF a.form = "args" THEN "value" ELSE "copy")

\* An exception (or undefined behaviour) leaves a reallocating member: the
\* local RawMemory is freed, data_ (the first cap slots of m) and size_ stay.
Abort(r, cap, v) ==
    Result(r.st, Head_(r.m, cap), v.size, -1, r.leak \/ LiveIn(Tail_(r.m, cap)))

\* The member completed its transfer: destroy_n(data_, size_), data_.Swap(new),
\* the old buffer is freed with the local RawMemory.
Commit(r, cap, v, new_size, rt) ==
    LET d == DestroyN(r.m, 0, v.size)
    IN Result(d.st, Tail_(d.m, cap), IF d.st = "ok" THEN new_size ELSE v.size, rt,
              r.leak \/ LiveIn(Head_(d.m, cap)))

\* Mutant: the handlers of the reallocating branch destroy the transferred
\* prefix but not the new element.
EmplaceReallocKeepsNew(v, offset, a, t, partial) ==
    LET cap == Capacity(v)
        new_cap == IF v.size = 0 THEN 1 ELSE v.size * 2
        m0 == v.data \o RawMemory(new_cap)
        first == <<ArgCtor(cap + offset + 1, a)>>
        c == Exec(m0, first, 1, t, partial)
        t1 == Rem(t, ThrowCount(first))
    IN IF c.st # "ok" THEN Abort(c, cap, v)
       ELSE LET p == ShiftDataToNewMemory(c.m, 0, offset, cap, t1, partial)
            IN IF p.st # "ok" THEN Abort(p, cap, v)
               ELSE LET s == ShiftDataToNewMemory(p.m, offset, v.size - offset,
                                                  cap + offset + 1,
                                                  Rem(t1, TransferCount(offset)), partial)
                    IN IF s.st = "ub" THEN Abort(s, cap, v)
                       ELSE IF s.st = "throw"
                            THEN LET h == DestroyN(s.m, cap, offset)
                                 IN Abort([h EXCEPT !.st = "throw",
                                                    !.leak = p.leak \/ s.leak], cap, v)
                       ELSE Commit([s EXCEPT !.leak = c.leak \/ p.leak \/ s.leak],
                                   cap, v, v.size + 1, offset)

\* ---------------------------------------------------------------- Emplace
\* The size_ == Capacity() branch.
EmplaceRealloc(v, offset, a, t, partial) ==
    LET cap == Capacity(v)
        new_cap == IF v.size = 0 THEN 1 ELSE v.size * 2
        m0 == v.data \o RawMemory(new_cap)
        first == <<ArgCtor(cap + offset + 1, a)>>
        c == Exec(m0, first, 1, t, partial)
        t1 == Rem(t, ThrowCount(first))
    IN IF c.st # "ok" THEN Abort(c, cap, v)
       ELSE LET p == ShiftDataToNewMemory(c.m, 0, offset, cap, t1, partial)
            IN IF p.st = "ub" THEN Abort(p, cap, v)
               ELSE IF p.st = "throw"
                    THEN LET h == DestroyN(p.m, cap + offset, 1)
                         IN Abort([h EXCEPT !.st = "throw", !.leak = p.leak], cap, v)
               ELSE LET s == ShiftDataToNewMemory(p.m, offset, v.size - offset,
                                                  cap + offset + 1,
                                                  Rem(t1, TransferCount(offset)), partial)
                    IN IF s.st = "ub" THEN Abort(s, cap, v)
                       ELSE IF s.st = "throw"
                            THEN LET h == DestroyN(s.m, cap, offset + 1)
                                 IN Abort([h EXCEPT !.st = "throw",
                                                    !.leak = p.leak \/ s.leak], cap, v)
                       ELSE Commit([s EXCEPT !.leak = c.leak \/ p.leak \/ s.leak],
                                   cap, v, v.size + 1, offset)

\* The size_ < Capacity() branch; temp_val is one more slot after the buffer.
EmplaceInPlace(v, offset, a, t, partial) ==
    LET cap == Capacity(v)
        size == v.size
    IN IF offset = size
       THEN LET c == Exec(v.data, <<ArgCtor(size + 1, a)>>, 1, t, partial)
            IN Result(c.st, c.m, IF c.st = "ok" THEN size + 1 ELSE size,
                      IF c.st = "ok" THEN offset ELSE -1, c.leak)
       ELSE LET temp_val == cap + 1
                m0 == v.data \o RawMemory(1)
                n == size - 1 - offset
                ops == <<ArgCtor(temp_val, a), Ctor(size + 1, size, 0, "move")>>
                       \o [j \in 1..n |-> Asg(size - j + 1, size - j, 0, "move")]
                       \o <<Asg(offset + 1, temp_val, 0, "move")>>
                r == Exec(m0, ops, 1, t, partial)
                \* temp_val leaves scope, normally or by the exception
                e == IF r.st # "ub" /\ r.done >= 1 THEN DestroyN(r.m, cap, 1).m ELSE r.m
            IN Result(r.st, Head_(e, cap), IF r.st = "ok" THEN size + 1 ELSE size,
                      IF r.st = "ok" THEN offset ELSE -1,
                      r.leak \/ LiveIn(Tail_(e, cap)))

\* Mutant: Emplace takes the reallocating branch whatever the capacity.
EmplaceAlwaysReallocates(v, offset, a, t, partial) ==
    EmplaceRealloc(v, offset, a, t, partial)

Emplace(v, offset, a, t, partial) ==
    IF v.size = Capacity(v) THEN EmplaceRealloc(v, offset, a, t, partial)
    ELSE EmplaceInPlace(v, offset, a, t, partial)

\* Mutant: Insert ignores the position and appends.
InsertAppends(v, offset, a, t, partial) ==
    [Emplace(v, v.size, a, t, partial) EXCEPT !.ret = offset]

Insert(v, offset, a, t, partial) == Emplace(v, offset, a, t, partial)

\* ------------------------------------------------------------------ Erase
Erase(v, offset, t, partial) ==
    LET n == v.size - 1 - offset
        ops == [j \in 1..n |-> Asg(offset + j, offset + j + 1, 0, "move")]
               \o <<Dtor(offset + 1)>>
        r == Exec(v.data, ops, 1, t, partial)
    IN Result(r.st, r.m, IF r.st = "ok" THEN v.size - 1 ELSE v.size,
              IF r.st = "ok" THEN offset ELSE -1, r.leak)

\* Mutant: a shrinking Resize sets size_ without destroying the tail.
ResizeForgetsTail(v, new_size, t, partial) ==
    LET grow == new_size > Capacity(v)
        r == IF grow THEN Reserve(v, new_size, t, partial)
             ELSE Result("ok", v.data, v.size, -1, FALSE)
        t1 == IF grow THEN Rem(t, TransferCount(v.size)) ELSE t
    IN IF r.st # "ok" THEN r
       ELSE IF new_size > v.size
            THEN LET c == UninitializedValueConstructN(r.data, v.size,
                                                       new_size - v.size, t1)
                 IN Result(c.st, c.m, IF c.st = "ok" THEN new_size ELSE v.size, -1,
                           r.leak \/ c.leak)
            ELSE Result("ok", r.data, new_size, -1, r.leak)

\* ----------------------------------------------------------------- Resize
\* src/vector.h
Resize(v, new_size, t, partial) ==
    LET grow == new_size > Capacity(v)
        r == IF grow THEN Reserve(v, new_size, t, partial)
             ELSE Result("ok", v.data, v.size, -1, FALSE)
        t1 == IF grow THEN Rem(t, TransferCount(v.size)) ELSE t
    IN IF r.st # "ok" THEN r
       ELSE IF new_size > v.size
            THEN LET c == UninitializedValueConstructN(r.data, v.size,
                                                       new_size - v.size, t1)
                 IN Result(c.st, c.m, IF c.st = "ok" THEN new_size ELSE v.size, -1,
                           r.leak \/ c.leak)
            ELSE LET d == DestroyN(r.data, new_size, v.size - new_size)
                 IN Result(d.st, d.m, IF d.st = "ok" THEN new_size ELSE v.size, -1,
                           r.leak)

\* src/unnamed/part_000
ResizeP(v, new_size, t, partial) ==
    IF new_size < v.size
    THEN LET d == DestroyN(v.data, new_size, v.size - new_size)
         IN Result(d.st, d.m, IF d.st = "ok" THEN new_size ELSE v.size, -1, FALSE)
    ELSE IF new_size > v.size
         THEN LET r == Reserve(v, new_size, t, partial)
                  t1 == IF new_size > Capacity(v) THEN Rem(t, TransferCount(v.size))
                        ELSE t
              IN IF r.st # "ok" THEN r
                 ELSE LET c == UninitializedValueConstructN(r.data, v.size,
                                                            new_size - v.size, t1)
                      IN Result(c.st, c.m, IF c.st = "ok" THEN new_size ELSE v.size,
                                -1, r.leak \/ c.leak)
         ELSE Result("ok", v.data, v.size, -1, FALSE)

\* ------------------------------------------------- PushBack / EmplaceBack
\* src/vector.h: EmplaceBack is Emplace(end(), args...), PushBack is EmplaceBack.
EmplaceBackH(v, a, t, partial) == Emplace(v, v.size, a, t, partial)

PushBackH(v, a, t, partial) == [EmplaceBackH(v, a, t, partial) EXCEPT !.ret = -1]

\* src/unnamed/part_000: ::new (data_.GetAddress() + size_) T(...); ++size_;
ConstructAtEnd(v, a, t, partial) ==
    LET c == Exec(v.data, <<ArgCtor(v.size + 1, a)>>, 1, t, partial)
    IN Result(c.st, c.m, IF c.st = "ok" THEN v.size + 1 ELSE v.size, -1, c.leak)

ReallocateAndPush(v, a, t, partial) ==
    LET cap == Capacity(v)
        m0 == v.data \o RawMemory(IF v.size = 0 THEN 1 ELSE v.size * 2)
        r == UninitializedN(m0, 0, v.size, cap, TransferMode, t, partial)
    IN IF r.st # "ok" THEN Abort(r, cap, v)
       ELSE LET c == Exec(r.m, <<ArgCtor(cap + v.size + 1, a)>>, 1,
                          Rem(t, TransferCount(v.size)), partial)
            IN IF c.st # "ok" THEN Abort([c EXCEPT !.leak = r.leak \/ c.leak], cap, v)
               ELSE Commit([c EXCEPT !.leak = r.leak \/ c.leak], cap, v,
                           v.size + 1, -1)

PushBack(v, a, t, partial) ==
    IF v.size < Capacity(v) THEN ConstructAtEnd(v, a, t, partial)
    ELSE ReallocateAndPush(v, a, t, partial)

ReallocateAndEmplace(v, a, t, partial) ==
    LET cap == Capacity(v)
        m0 == v.data \o RawMemory(IF v.size = 0 THEN 1 ELSE v.size * 2)
        dest == cap + v.size + 1
        first == <<ArgCtor(dest, a)>>
        c == Exec(m0, first, 1, t, partial)
    IN IF c.st # "ok" THEN Abort(c, cap, v)
       ELSE LET loop == [i \in 1..v.size |-> Ctor(cap + i, i, 0, TransferMode)]
                r == Exec(c.m, loop, 1, Rem(t, ThrowCount(first)), partial)
            IN IF r.st = "ub" THEN Abort(r, cap, v)
               ELSE IF r.st = "throw"
                    THEN LET h == DestroyN(DestroyN(r.m, cap, r.done).m, dest - 1, 1)
                         IN Abort([h EXCEPT !.st = "throw", !.leak = r.leak], cap, v)
               ELSE Commit(r, cap, v, v.size + 1, v.size)

EmplaceBack(v, a, t, partial) ==
    IF v.size < Capacity(v)
    THEN LET c == ConstructAtEnd(v, a, t, partial)
         IN [c EXCEPT !.ret = IF c.st = "ok" THEN v.size ELSE -1]
    ELSE ReallocateAndEmplace(v, a, t, partial)

\* ------------------------------------- constructors, assignment, Swap
NoVector == [status |-> "none", data |-> <<>>, size |-> 0]
NewVector(data, size) == [status |-> "alive", data |-> data, size |-> size]

\* RawMemory(RawMemory&& other): what is left in other.
RawMemoryMovedFrom == RawMemory(0)

\* The result of a member that involves two vectors: this and other after it.
Result2(st, this, other, leak) ==
    [st |-> st, this |-> this, other |-> other, leak |-> leak]

\* explicit Vector(size_t size)
SizedConstruct(size, t) ==
    LET r == UninitializedValueConstructN(RawMemory(size), 0, size, t)
    IN IF r.st = "ok" THEN Result2("ok", NewVector(r.m, size), NoVector, r.leak)
       ELSE Result2(r.st, NoVector, NoVector, r.leak \/ LiveIn(r.m))

\* Mutant: the copy constructor allocates other's capacity, not its size.
CopyConstructFullCapacity(other, t) ==
    LET cap == Capacity(other)
        m0 == other.data \o RawMemory(cap)
        r == UninitializedN(m0, 0, other.size, cap, "copy", t, FALSE)
    IN IF r.st = "ok"
       THEN Result2("ok", NewVector(Tail_(r.m, cap), other.size), other, r.leak)
       ELSE Result2(r.st, NoVector, other, r.leak \/ LiveIn(Tail_(r.m, cap)))

\* Vector(const Vector& other)
CopyConstruct(other, t) ==
    LET cap == Capacity(other)
        m0 == other.data \o RawMemory(other.size)
        r == UninitializedN(m0, 0, other.size, cap, "copy", t, FALSE)
    IN IF r.st = "ok"
       THEN Result2("ok", NewVector(Tail_(r.m, cap), other.size), other, r.leak)
       ELSE Result2(r.st, NoVector, other, r.leak \/ LiveIn(Tail_(r.m, cap)))

\* Mutant: the move constructor leaves other.size_ as it was.
MoveConstructKeepsSize(other) ==
    Result2("ok", NewVector(other.data, other.size),
            [other EXCEPT !.data = RawMemory(0)], FALSE)

\* Vector(Vector&& other) noexcept
MoveConstruct(other) ==
    Result2("ok", NewVector(other.data, other.size),
            [other EXCEPT !.data = RawMemoryMovedFrom, !.size = 0], FALSE)

\* ~Vector()
Destructor(v) ==
    LET d == DestroyN(v.data, 0, v.size)
    IN Result2(d.st, NoVector, NoVector, LiveIn(d.m))

\* void Swap(Vector& other) noexcept
Swap(this, other) ==
    Result2("ok", [this EXCEPT !.data = other.data, !.size = other.size],
            [other EXCEPT !.data = this.data, !.size = this.size], FALSE)

\* Mutant: move assignment destroys its own elements and takes other's
\* storage, leaving other empty.
MoveAssignDestroysOld(this, other, same) ==
    IF same THEN Result2("ok", this, other, FALSE)
    ELSE LET d == Destructor(this)
         IN Result2(d.st, [this EXCEPT !.data = other.data, !.size = other.size],
                    [other EXCEPT !.data = RawMemoryMovedFrom, !.size = 0], d.leak)

\* Vector& operator=(Vector&& other) noexcept
MoveAssign(this, other, same) ==
    IF same THEN Result2("ok", this, other, FALSE) ELSE Swap(this, other)

\* Vector& operator=(const Vector& other): the in-place branch
CopyAssignInPlace(this, other, t) ==
    LET cap == Capacity(this)
        m0 == this.data \o other.data
        min_size == IF this.size < other.size THEN this.size ELSE other.size
        c == Exec(m0, [i \in 1..min_size |-> Asg(i, cap + i, 0, "copy")], 1, t, FALSE)
    IN IF c.st # "ok"
       THEN Result2(c.st, [this EXCEPT !.data = Head_(c.m, cap)], other, c.leak)
       ELSE IF this.size < other.size
            THEN LET u == UninitializedN(c.m, cap + min_size, other.size - min_size,
                                         min_size, "copy", Rem(t, min_size), FALSE)
                 IN Result2(u.st,
                            [this EXCEPT !.data = Head_(u.m, cap),
                                         !.size = IF u.st = "ok" THEN other.size ELSE @],
                            other, u.leak)
            ELSE LET d == DestroyN(c.m, other.size, this.size - other.size)
                 IN Result2(d.st,
                            [this EXCEPT !.data = Head_(d.m, cap),
                                         !.size = IF d.st = "ok" THEN other.size ELSE @],
                            other, FALSE)

\* Mutant: copy assignment always goes through a temporary copy and Swap.
CopyAssignAlwaysReallocates(this, other, same, t) ==
    LET temp == CopyConstruct(other, t)
    IN IF temp.st # "ok" THEN Result2(temp.st, this, other, temp.leak)
       ELSE LET sw == Swap(this, temp.this)
                d == Destructor(sw.other)
            IN Result2(d.st, sw.this, other, temp.leak \/ d.leak)

CopyAssign(this, other, same, t) ==
    IF same THEN Result2("ok", this, other, FALSE)
    ELSE IF other.size > Capacity(this)
         THEN LET temp == CopyConstruct(other, t)
              IN IF temp.st # "ok" THEN Result2(temp.st, this, other, temp.leak)
                 ELSE LET sw == Swap(this, temp.this)
                          d == Destructor(sw.other)
                      IN Result2(d.st, sw.this, other, temp.leak \/ d.leak)
         ELSE CopyAssignInPlace(this, other, t)

\* ---------------------------------------------------------------- actions
Alive(o) == vec[o].status = "alive"
Running == outcome # "ub"

CapBound == MaxCap

Finish(o, name, r, val, ref, pos) ==
    /\ vec' = [vec EXCEPT ![o].data = r.data, ![o].size = r.size]
    /\ lastOp' = name
    /\ obj' = o
    /\ from' = 0
    /\ argVal' = val
    /\ argRef' = ref
    /\ argPos' = pos
    /\ outcome' = r.st
    /\ ret' = r.ret
    /\ leaked' = (leaked \/ r.leak)
    /\ UNCHANGED <<kind, variant>>

\* The element arguments a call can be given.
Args(v, forms) ==
    {Arg(f, x, -1) : f \in forms \ {"self"}, x \in Values}
    \cup (IF "self" \in forms
          THEN {Arg("self", v.data[j + 1], j) : j \in 0..(v.size - 1)}
          ELSE {})

\* The forms T is called with: a copyable T is passed by const T&, a
\* move-only T by T&&.
Forms(fs) == IF Copyable THEN fs \ {"rvalue"} ELSE fs \ {"lvalue", "self"}

\* Which throwable element operation of the call throws (0: none), for a
\* call that runs n of them; whether the throwing move emptied its source.
ThrowPoints(n) == 0..(IF n < MaxThrow THEN n ELSE MaxThrow)
Partials(t, moves) == IF t > 0 /\ moves /\ MoveCanThrow THEN BOOLEAN ELSE {FALSE}

\* Throwable operations of n element moves.
MoveCount(n) == IF MoveCanThrow THEN n ELSE 0

\* Throwable operations of an insertion at offset.
EmplaceCount(v, offset) ==
    IF v.size = Capacity(v) THEN 1 + TransferCount(v.size)
    ELSE IF offset = v.size THEN 1
    ELSE 1 + MoveCount(v.size - offset + 1)

ReserveCount(v, n) == IF n > Capacity(v) THEN TransferCount(v.size) ELSE 0

\* Growth by insertion stays within the bounds.
MayGrow(v) ==
    /\ v.size < MaxSize
    /\ v.size < Capacity(v) \/ (IF v.size = 0 THEN 1 ELSE v.size * 2) <= CapBound

\* The caller is between two calls.
Idle == lastOp = "none"

\* Elements are inserted and removed while one vector exists; a second one
\* is made of a vector of at most MaxPairCap slots.
Mutable == Idle /\ Running /\ Alive(1) /\ ~Alive(2)

Pairable == Alive(1) /\ ~Alive(2) /\ Capacity(vec[1]) <= MaxPairCap

DoReserve ==
    /\ Mutable
    /\ \E n \in 0..CapBound :
       \E t \in ThrowPoints(ReserveCount(vec[1], n)) :
       \E partial \in Partials(t, TransferMode = "move") :
          Finish(1, "Reserve", Reserve(vec[1], n, t, partial), 0, -1, n)

DoResize ==
    /\ Mutable
    /\ \E n \in 0..(IF CapBound < MaxSize THEN CapBound ELSE MaxSize) :
       \E t \in ThrowPoints(ReserveCount(vec[1], n)
                            + (IF n > vec[1].size THEN n - vec[1].size ELSE 0)) :
       \E partial \in Partials(t, TransferMode = "move") :
          Finish(1, "Resize",
                 IF variant = "vector.h" THEN Resize(vec[1], n, t, partial)
                 ELSE ResizeP(vec[1], n, t, partial),
                 0, -1, n)

DoPushBack ==
    /\ Mutable /\ MayGrow(vec[1])
    /\ \E a \in Args(vec[1], Forms({"lvalue", "rvalue", "self"})) :
       \E t \in ThrowPoints(EmplaceCount(vec[1], vec[1].size)) :
       \E partial \in Partials(t, TransferMode = "move") :
          Finish(1, "PushBack",
                 IF variant = "vector.h" THEN PushBackH(vec[1], a, t, partial)
                 ELSE PushBack(vec[1], a, t, partial),
                 a.val, a.ref, -1)

DoEmplaceBack ==
    /\ Mutable /\ MayGrow(vec[1])
    /\ \E a \in Args(vec[1], {"args"}) :
       \E t \in ThrowPoints(EmplaceCount(vec[1], vec[1].size)) :
       \E partial \in Partials(t, TransferMode = "move") :
          Finish(1, "EmplaceBack",
                 IF variant = "vector.h" THEN EmplaceBackH(vec[1], a, t, partial)
                 ELSE EmplaceBack(vec[1], a, t, partial),
                 a.val, a.ref, -1)

DoInsert ==
    /\ Mutable /\ MayGrow(vec[1])
    /\ variant = "vector.h"
    /\ \E offset \in 0..vec[1].size :
       \E a \in Args(vec[1], Forms({"lvalue", "rvalue", "self"})) :
       \E t \in ThrowPoints(EmplaceCount(vec[1], offset)) :
       \E partial \in Partials(t, TRUE) :
          Finish(1, "Insert", Insert(vec[1], offset, a, t, partial),
                 a.val, a.ref, offset)

DoEmplace ==
    /\ Mutable /\ MayGrow(vec[1])
    /\ variant = "vector.h"
    /\ \E offset \in 0..vec[1].size :
       \E a \in Args(vec[1], {"args"}) :
       \E t \in ThrowPoints(EmplaceCount(vec[1], offset)) :
       \E partial \in Partials(t, TRUE) :
          Finish(1, "Emplace", Emplace(vec[1], offset, a, t, partial),
                 a.val, a.ref, offset)

DoErase ==
    /\ Mutable
    /\ variant = "vector.h"
    /\ \E offset \in 0..(vec[1].size - 1) :
       \E t \in ThrowPoints(MoveCount(vec[1].size - 1 - offset)) :
       \E partial \in Partials(t, TRUE) :
          Finish(1, "Erase", Erase(vec[1], offset, t, partial), 0, -1, offset)

DoPopBack ==
    /\ Mutable
    /\ vec[1].size > 0
    /\ Finish(1, "PopBack", PopBack(vec[1]), 0, -1, -1)

\* v.Erase(v.Insert(pos, value)), both calls completing.
EraseInsert(v, offset, a) ==
    LET i == Insert(v, offset, a, 0, FALSE)
    IN IF i.st # "ok" THEN i
       ELSE LET e == Erase([v EXCEPT !.data = i.data, !.size = i.size], i.ret, 0, FALSE)
            IN [e EXCEPT !.leak = i.leak \/ e.leak]

DoEraseInsert ==
    /\ Mutable /\ MayGrow(vec[1])
    /\ variant = "vector.h"
    /\ \E offset \in 0..vec[1].size :
       \E a \in Args(vec[1], Forms({"lvalue", "rvalue"})) :
          Finish(1, "EraseInsert", EraseInsert(vec[1], offset, a), a.val, a.ref, offset)

FinishPair(name, o, s, this, other, st, leak) ==
    /\ vec' = IF o = s THEN [vec EXCEPT ![o] = this]
              ELSE [vec EXCEPT ![o] = this, ![s] = other]
    /\ lastOp' = name
    /\ obj' = o
    /\ from' = s
    /\ argVal' = 0
    /\ argRef' = -1
    /\ argPos' = -1
    /\ outcome' = st
    /\ ret' = -1
    /\ leaked' = (leaked \/ leak)
    /\ UNCHANGED <<kind, variant>>

Callable == Idle /\ Running

\* Vector b(n);
DoSizedConstruct ==
    /\ Callable /\ Pairable
    /\ \E n \in 0..MaxPairCap, t \in ThrowPoints(MaxPairCap) :
          t <= n /\
          LET r == SizedConstruct(n, t)
          IN FinishPair("Vector(n)", 2, 2, r.this, r.other, r.st, r.leak)

\* Vector b(a);
DoCopyConstruct ==
    /\ Callable /\ Pairable
    /\ Copyable
    /\ \E t \in ThrowPoints(vec[1].size) :
          LET r == CopyConstruct(vec[1], t)
          IN FinishPair("CopyConstruct", 2, 1, r.this, r.other, r.st, r.leak)

\* Vector b(std::move(a));
DoMoveConstruct ==
    /\ Callable /\ Pairable
    /\ LET r == MoveConstruct(vec[1])
       IN FinishPair("MoveConstruct", 2, 1, r.this, r.other, r.st, r.leak)

DoCopyAssign ==
    /\ Callable /\ Copyable
    /\ \E o \in Objs, s \in Objs :
          /\ Alive(o) /\ Alive(s)
          /\ \E t \in ThrowPoints(IF o = s THEN 0 ELSE vec[s].size) :
                LET r == CopyAssign(vec[o], vec[s], o = s, t)
                IN FinishPair("CopyAssign", o, s, r.this, r.other, r.st, r.leak)

DoMoveAssign ==
    /\ Callable
    /\ \E o \in Objs, s \in Objs :
          /\ Alive(o) /\ Alive(s)
          /\ LET r == MoveAssign(vec[o], vec[s], o = s)
             IN FinishPair("MoveAssign", o, s, r.this, r.other, r.st, r.leak)

DoSwap ==
    /\ Callable
    /\ \E o \in Objs, s \in Objs :
          /\ Alive(o) /\ Alive(s) /\ o # s
          /\ LET r == Swap(vec[o], vec[s])
             IN FinishPair("Swap", o, s, r.this, r.other, r.st, r.leak)

\* The object's lifetime ends.
DoDestructor ==
    /\ Callable
    /\ \E o \in Objs :
          /\ Alive(o)
          /\ LET r == Destructor(vec[o])
             IN FinishPair("~Vector", o, o, r.this, r.other, r.st, r.leak)

\* The call has returned (or its exception was caught) and the caller goes
\* on; after undefined behaviour there is nothing to go on with.
Return ==
    /\ ~Idle /\ Running
    /\ lastOp' = "none"
    /\ obj' = 0
    /\ from' = 0
    /\ argVal' = 0
    /\ argRef' = -1
    /\ argPos' = -1
    /\ outcome' = "ok"
    /\ ret' = -1
    /\ UNCHANGED <<kind, variant, vec, leaked>>

Init ==
    /\ kind \in Kinds
    /\ variant \in Variants
    /\ vec = [o \in Objs |-> IF o = 1 THEN [status |-> "alive", data |-> <<>>, size |-> 0]
                                      ELSE NoVector]
    /\ lastOp = "Vector"
    /\ obj = 1
    /\ from = 0
    /\ argVal = 0
    /\ argRef = -1
    /\ argPos = -1
    /\ outcome = "ok"
    /\ ret = -1
    /\ leaked = FALSE

Next ==
    \/ DoReserve
    \/ DoResize
    \/ DoPushBack
    \/ DoEmplaceBack
    \/ DoInsert
    \/ DoEmplace
    \/ DoErase
    \/ DoPopBack
    \/ DoEraseInsert
    \/ DoSizedConstruct
    \/ DoCopyConstruct
    \/ DoMoveConstruct
    \/ DoCopyAssign
    \/ DoMoveAssign
    \/ DoSwap
    \/ DoDestructor
    \/ Return

Spec == Init /\ [][Next]_vars

\* ================================================================ claims
\* The representation invariant of one vector: size <= capacity, exactly
\* the slots [0, size) hold live elements.
Valid(v) ==
    /\ v.size <= Capacity(v)
    /\ \A i \in 1..Capacity(v) : IsLive(v.data[i]) <=> i <= v.size

AllValid == \A o \in Objs : Alive(o) => Valid(vec[o])

\* The call that is this step completed without an exception.
Completed(ops) == lastOp' \in ops /\ outcome' = "ok"
Threw(ops) == lastOp' \in ops /\ outcome' = "throw"

Mutators == {"Reserve", "Resize", "PushBack", "EmplaceBack", "Insert", "Emplace",
             "Erase", "PopBack"}
Members == Mutators \cup {"Vector(n)", "CopyConstruct", "MoveConstruct", "CopyAssign",
                          "MoveAssign", "Swap"}

\* C1: after every successfully completed operation (construction, Reserve,
\* Resize, PushBack, EmplaceBack, Insert, Emplace, Erase, PopBack, copy/move
\* assignment, Swap) on vectors that satisfied it, every vector has
\* size <= capacity, live elements in exactly the slots [0, size) and
\* uninitialized slots in [size, capacity).
C1_InvariantKept == [][(AllValid /\ Completed(Members)) => AllValid']_vars

\* C2: once every vector is destroyed, each constructed element has been
\* destroyed exactly once (none leaked), and no operation ever destroyed,
\* read or assigned a slot that held no live element.
C2_LifetimesBalance ==
    /\ outcome # "ub"
    /\ (\A o \in Objs : ~Alive(o)) => ~leaked

\* C3: after PushBack(v) / EmplaceBack(v) completes, Size() = old_size + 1,
\* S[old_size] = v, every S[i] with i < old_size is as before, and EmplaceBack
\* returns a reference to the element at index old_size.
C3_PushBackAppends ==
    [][Completed({"PushBack", "EmplaceBack"}) =>
         /\ vec'[1].size = vec[1].size + 1
         /\ vec'[1].data[vec[1].size + 1] = argVal'
         /\ \A i \in 1..vec[1].size : vec'[1].data[i] = vec[1].data[i]
         /\ lastOp' = "EmplaceBack" => ret' = vec[1].size]_vars

\* C4: after Insert/Emplace(p, v) with offset k completes, in the regime
\* size < capacity and in the regime size == capacity: size grew by 1, the
\* element at k is v, the elements formerly at [0, k) are unchanged, those
\* formerly at [k, old_size) are at [k + 1, old_size + 1) in the same order,
\* and the returned position is index k.
C4_InsertPlaces ==
    [][Completed({"Insert", "Emplace"}) =>
         /\ vec'[1].size = vec[1].size + 1
         /\ vec'[1].data[argPos' + 1] = argVal'
         /\ \A i \in 1..argPos' : vec'[1].data[i] = vec[1].data[i]
         /\ \A i \in (argPos' + 1)..vec[1].size : vec'[1].data[i + 1] = vec[1].data[i]
         /\ ret' = argPos']_vars

\* A reallocating Insert in the middle: [a, b] full, Insert(begin + 1, v)
\* gives [a, v, b] with Size() == 3.
C4_Witness ==
    /\ lastOp = "Insert" /\ outcome = "ok" /\ argPos = 1
    /\ vec[1].size = 3 /\ Capacity(vec[1]) = 4
    /\ vec[1].data[1] = 1 /\ vec[1].data[2] = 0 /\ vec[1].data[3] = 1

\* C5: Erase(position) with offset k moves each element at j in (k, size) to
\* j - 1, destroys exactly the element in the last live slot old_size - 1,
\* decrements size, leaves [0, k) and the capacity unchanged and returns the
\* position with index k.
C5_EraseDestroysLast ==
    [][Completed({"Erase"}) =>
         /\ vec'[1].size = vec[1].size - 1
         /\ Capacity(vec'[1]) = Capacity(vec[1])
         /\ \A i \in 1..argPos' : vec'[1].data[i] = vec[1].data[i]
         /\ \A j \in (argPos' + 2)..vec[1].size : vec'[1].data[j - 1] = vec[1].data[j]
         /\ ~IsLive(vec'[1].data[vec[1].size])
         /\ \A i \in 1..(vec[1].size - 1) :
               IsLive(vec[1].data[i]) => IsLive(vec'[1].data[i])
         /\ ret' = argPos']_vars

\* C6: Erase(Insert(pos, v)) returns a position with the index of pos, and
\* afterwards the size and the element values, each still a live element,
\* are those before the Insert.
C6_EraseUndoesInsert ==
    [][(Valid(vec[1]) /\ Completed({"EraseInsert"})) =>
         /\ ret' = argPos'
         /\ vec'[1].size = vec[1].size
         /\ \A i \in 1..vec[1].size :
               IsLive(vec'[1].data[i]) /\ vec'[1].data[i] = vec[1].data[i]]_vars

\* C7: Reserve(k) with k <= Capacity() changes nothing; otherwise, when it
\* completes, the capacity is exactly k, and the size and the values and
\* order of the elements are unchanged.
C7_ReserveExact ==
    [][Completed({"Reserve"}) =>
         IF argPos' <= Capacity(vec[1])
         THEN vec'[1] = vec[1]
         ELSE /\ Capacity(vec'[1]) = argPos'
              /\ vec'[1].size = vec[1].size
              /\ \A i \in 1..vec[1].size : vec'[1].data[i] = vec[1].data[i]]_vars

\* Reserve(4) has reallocated a full two-element vector with distinct values.
C7_Witness ==
    /\ lastOp = "Reserve" /\ outcome = "ok" /\ argPos = 4
    /\ Capacity(vec[1]) = 4 /\ vec[1].size = 2
    /\ vec[1].data[1] = 1 /\ vec[1].data[2] = 0

\* C8 as stated: whichever transfer is selected, if the transfer of an
\* element fails during Reserve, the original vector's size, capacity and
\* every element value are exactly as before the call, and nothing is left
\* constructed in the released storage.
C8_ReserveStrongAnyKind ==
    [][Threw({"Reserve"}) => (vec'[1] = vec[1] /\ leaked' = leaked)]_vars

\* C8 as amended: if the transfer of an element fails during Reserve, the
\* elements already constructed in the new storage are destroyed and the new
\* storage is released, the size, the capacity and the set of live slots are
\* as before; for a copyable element type every element value is as before,
\* and for a move-only type whose move throws each element has its old value
\* or is left moved-from.
C8_ReserveStrongIfCopyable ==
    [][Threw({"Reserve"}) =>
         /\ leaked' = leaked
         /\ vec'[1].size = vec[1].size
         /\ Capacity(vec'[1]) = Capacity(vec[1])
         /\ \A i \in 1..Capacity(vec[1]) :
               /\ IsLive(vec'[1].data[i]) <=> IsLive(vec[1].data[i])
               /\ vec'[1].data[i] \in {vec[1].data[i], MovedFrom}
         /\ kind # "MoveOnly" => vec'[1] = vec[1]]_vars

\* Three elements whose copy constructor throws: Reserve fails.
C8_Witness ==
    /\ lastOp = "Reserve" /\ outcome = "throw" /\ argPos = 4
    /\ kind = "ThrowingMove" /\ vec[1].size = 3 /\ Capacity(vec[1]) = 3

\* C9 as stated: if a reallocating Insert / Emplace / EmplaceBack fails, in
\* the construction of the new element or in a transfer step, everything
\* placed in the new storage is destroyed once, the new storage is released
\* and the original vector's size, capacity and element values are untouched.
C9_InsertStrongAnyKind ==
    [][(Threw({"Insert", "Emplace", "EmplaceBack"}) /\ vec[1].size = Capacity(vec[1])) =>
         (vec'[1] = vec[1] /\ leaked' = leaked)]_vars

\* C9 as amended: as stated for a copyable element type; for a move-only
\* type whose move throws, the size, capacity and live slots are untouched,
\* nothing leaks, and each element has its old value or is left moved-from.
C9_InsertStrongIfCopyable ==
    [][(Threw({"Insert", "Emplace", "EmplaceBack"}) /\ vec[1].size = Capacity(vec[1])) =>
         /\ leaked' = leaked
         /\ vec'[1].size = vec[1].size
         /\ Capacity(vec'[1]) = Capacity(vec[1])
         /\ \A i \in 1..Capacity(vec[1]) :
               /\ IsLive(vec'[1].data[i]) <=> IsLive(vec[1].data[i])
               /\ vec'[1].data[i] \in {vec[1].data[i], MovedFrom}
         /\ kind # "MoveOnly" => vec'[1] = vec[1]]_vars

\* A reallocating Insert in the middle of a full two-element vector failed.
C9_Witness ==
    /\ lastOp = "Insert" /\ outcome = "throw" /\ argPos = 1
    /\ kind = "ThrowingMove"
    /\ vec[1].size = 2 /\ Capacity(vec[1]) = 2

\* C10: after move-constructing a new vector from S, S.Size() == 0, the new
\* vector has S's former size and holds S's former elements in order (it owns
\* S's former storage), and no element was constructed, destroyed, copied
\* or moved.
C10_MoveConstructTakes ==
    [][lastOp' = "MoveConstruct" =>
         /\ outcome' = "ok"
         /\ vec'[1].size = 0
         /\ vec'[2].size = vec[1].size
         /\ vec'[2].data = vec[1].data
         /\ leaked' = leaked]_vars

\* A vector of two distinct elements was moved from.
C10_Witness ==
    /\ lastOp = "MoveConstruct" /\ outcome = "ok"
    /\ vec[2].size = 2 /\ vec[2].data[1] # vec[2].data[2]
    /\ vec[1].size = 0

\* C11: after a completed copy assignment A = B (A and B possibly the same
\* object), A.Size() == B.Size() and A[i] == B[i] for every i < B.Size(), B
\* is unchanged, A's capacity is unchanged when B.Size() fits A's former
\* capacity, and a self-assignment changes nothing at all.
C11_CopyAssignCopies ==
    [][Completed({"CopyAssign"}) =>
         LET a == obj'
             b == from'
         IN /\ vec'[a].size = vec[b].size
            /\ \A i \in 1..vec[b].size : vec'[a].data[i] = vec[b].data[i]
            /\ a # b => vec'[b] = vec[b]
            /\ vec[b].size <= Capacity(vec[a]) => Capacity(vec'[a]) = Capacity(vec[a])
            /\ a = b => vec' = vec]_vars

\* A one-element vector was copy-assigned into the two slots of another
\* one, which kept its capacity.
C11_Witness ==
    /\ lastOp = "CopyAssign" /\ outcome = "ok" /\ obj # from
    /\ vec[obj].size = 1 /\ Capacity(vec[obj]) = 2
    /\ vec[from].size = 1 /\ vec[from].data[1] = 1 /\ vec[obj].data[1] = 1

\* C12: a vector copy-constructed from S has size and capacity S.Size() and
\* element i equal to S[i] for every i; S is unchanged; if copying an element
\* fails, the copies already made are destroyed and the new storage is
\* released (no vector is constructed, nothing is lost).
C12_CopyConstructCopies ==
    [][(lastOp' = "CopyConstruct" /\ outcome' # "ub") =>
         /\ vec'[1] = vec[1]
         /\ leaked' = leaked
         /\ outcome' = "ok" =>
               /\ vec'[2].status = "alive"
               /\ vec'[2].size = vec[1].size
               /\ Capacity(vec'[2]) = vec[1].size
               /\ \A i \in 1..vec[1].size : vec'[2].data[i] = vec[1].data[i]
         /\ outcome' = "throw" => vec'[2] = NoVector]_vars

\* A vector with one element in two slots was copied: the copy has one slot.
C12_Witness ==
    /\ lastOp = "CopyConstruct" /\ outcome = "ok"
    /\ vec[1].size = 1 /\ Capacity(vec[1]) = 2 /\ vec[1].data[1] = 1
    /\ vec[2].size = 1 /\ Capacity(vec[2]) = 1 /\ vec[2].data[1] = 1

\* C13: after a completed Resize(n), Size() == n and the elements at
\* [0, min(old_size, n)) are unchanged; if n < old_size the elements at
\* [n, old_size) are destroyed and the capacity is unchanged; if n > old_size
\* the slots [old_size, n) hold default-constructed elements, capacity >= n,
\* and the storage is reallocated only if n exceeded the former capacity.
C13_ResizeSetsSize ==
    [][Completed({"Resize"}) =>
         LET n == argPos'
             old == vec[1].size
         IN /\ vec'[1].size = n
            /\ \A i \in 1..(IF n < old THEN n ELSE old) :
                  vec'[1].data[i] = vec[1].data[i]
            /\ n < old =>
                  /\ \A i \in (n + 1)..old : ~IsLive(vec'[1].data[i])
                  /\ Capacity(vec'[1]) = Capacity(vec[1])
            /\ n > old =>
                  /\ \A i \in (old + 1)..n : vec'[1].data[i] = DefaultValue
                  /\ Capacity(vec'[1]) >= n
                  /\ n <= Capacity(vec[1]) => Capacity(vec'[1]) = Capacity(vec[1])]_vars

\* Resize(3) has grown the vector [1] to [1, T(), T()] in exactly 3 slots.
C13_Witness ==
    /\ lastOp = "Resize" /\ outcome = "ok" /\ argPos = 3
    /\ vec[1].size = 3 /\ Capacity(vec[1]) = 3
    /\ vec[1].data = <<1, DefaultValue, DefaultValue>>

\* C14: over Reserve, Resize, PushBack, EmplaceBack, Insert, Emplace, Erase,
\* PopBack and copy assignment, completing or failing, the Capacity() of the
\* vector the call is made on never decreases.
C14_CapacityNeverShrinks ==
    [][(lastOp' \in Mutators \cup {"CopyAssign"} /\ outcome' # "ub") =>
         Capacity(vec'[obj']) >= Capacity(vec[obj'])]_vars

\* The last element of a vector of 4 slots was popped: still 4 slots.
C14_Witness ==
    /\ lastOp = "PopBack" /\ outcome = "ok"
    /\ vec[1].size = 0 /\ Capacity(vec[1]) = 4

\* C15: Swap(A, B) and A = std::move(B) with A, B distinct exchange storage,
\* capacity and size: A holds B's former elements and B holds A's, no element
\* is constructed, destroyed, copied or moved, and a second Swap restores
\* both vectors.
C15_SwapExchanges ==
    [][(lastOp' \in {"Swap", "MoveAssign"} /\ obj' # from') =>
         LET a == obj'
             b == from'
             again == Swap(vec'[a], vec'[b])
         IN /\ outcome' = "ok"
            /\ vec'[a].data = vec[b].data /\ vec'[a].size = vec[b].size
            /\ vec'[b].data = vec[a].data /\ vec'[b].size = vec[a].size
            /\ leaked' = leaked
            /\ again.this = vec[a] /\ again.other = vec[b]]_vars

\* A move assignment between a vector of two distinct elements and a vector
\* of one element.
C15_Witness ==
    /\ lastOp = "MoveAssign" /\ outcome = "ok" /\ obj # from
    /\ vec[obj].size = 2 /\ vec[obj].data[1] # vec[obj].data[2]
    /\ vec[from].size = 1 /\ Capacity(vec[from]) = 1

\* C16: in a reallocating PushBack / EmplaceBack / Insert / Emplace the new
\* element is constructed before any element is moved out of the old
\* storage: an argument that refers to an element of the same vector stores
\* that element's original value.
C16_NewElementFirst ==
    [][(/\ Completed({"PushBack", "EmplaceBack", "Insert", "Emplace"})
        /\ vec[1].size = Capacity(vec[1])
        /\ argRef' >= 0) =>
         vec'[1].data[(IF lastOp' \in {"Insert", "Emplace"} THEN argPos'
                       ELSE vec[1].size) + 1]
            = vec[1].data[argRef' + 1]]_vars

\* C17: if a reallocating PushBack fails, in the construction of the
\* appended element or in the transfer of an element, for an element type
\* whose transfer is a nothrow move or a copy, nothing stays constructed in
\* the released storage and the vector's size, capacity and element values
\* are as before the call.
C17_PushBackStrong ==
    [][(/\ Threw({"PushBack"})
        /\ kind # "MoveOnly"
        /\ vec[1].size = Capacity(vec[1])) =>
         (vec'[1] = vec[1] /\ leaked' = leaked)]_vars

\* n completed PushBack calls on a default-constructed vector.
RECURSIVE Pushes(_)
Pushes(n) ==
    IF n = 0 THEN NewVector(RawMemory(0), 0)
    ELSE LET v == Pushes(n - 1)
             a == Arg(IF Copyable THEN "lvalue" ELSE "rvalue", DefaultValue, -1)
             r == IF variant = "vector.h" THEN PushBackH(v, a, 0, FALSE)
                  ELSE PushBack(v, a, 0, FALSE)
         IN NewVector(r.data, r.size)

\* The smallest power of two >= n.
RECURSIVE PowerOfTwoFrom(_, _)
PowerOfTwoFrom(p, n) == IF p >= n THEN p ELSE PowerOfTwoFrom(2 * p, n)

\* C18: PushBack / EmplaceBack / Emplace (and Insert) with size < capacity
\* leave the capacity unchanged; with size == capacity the new capacity is 1
\* if the capacity was 0 and 2 * old_size otherwise; so the capacity after
\* n >= 1 pushes on an empty vector is the smallest power of two >= n.
C18_GrowthPolicy ==
    [][/\ Completed({"PushBack", "EmplaceBack", "Emplace", "Insert"}) =>
            Capacity(vec'[1]) =
               IF vec[1].size < Capacity(vec[1]) THEN Capacity(vec[1])
               ELSE IF Capacity(vec[1]) = 0 THEN 1 ELSE 2 * vec[1].size
       /\ (Completed({"PushBack"}) /\ Capacity(vec[1]) = 0) =>
            \A n \in 1..(MaxCap + 1) :
               Capacity(Pushes(n)) = PowerOfTwoFrom(1, n)]_vars

\* The third PushBack on a vector of two slots doubled them.
C18_Witness ==
    /\ lastOp = "PushBack" /\ outcome = "ok"
    /\ vec[1].size = 3 /\ Capacity(vec[1]) = 4
    /\ \E n \in 1..(MaxCap + 1) : Pushes(n).size = 3 /\ Capacity(Pushes(n)) = 4

\* C19: if an element move construction or move assignment throws during
\* Insert / Emplace with size < capacity and position != end, the vector is
\* left valid: every slot below Size() is live, no slot from Size() on stays
\* constructed, and the temporary with the new value is destroyed once.
C19_InPlaceInsertBasic ==
    [][(/\ Threw({"Insert", "Emplace"})
        /\ Valid(vec[1])
        /\ vec[1].size < Capacity(vec[1])
        /\ argPos' < vec[1].size) =>
         (Valid(vec'[1]) /\ leaked' = leaked)]_vars
====
